---- MODULE Spec2Model ----
(***************************************************************************)
(* Model of the session orchestration engine ContentProtectionAPI          *)
(* (src/src/index.js): the session store, initialize, checkSecurityStatus, *)
(* handleSecurityBreach, terminateStream and cleanup.                      *)
(*                                                                         *)
(* JavaScript runs each function to its next await without interruption,   *)
(* so every action below is one such run: the part of a function between   *)
(* two awaits, with every call it makes.  The promises an await waits for  *)
(* (the detectors' initialize and checkStatus, the notification delivery)  *)
(* settle in actions of their own.                                         *)
(*                                                                         *)
(* The callers explored: terminateStream and cleanup are called at any     *)
(* time, also while a call or a breach handler is suspended; at most one   *)
(* initialize or checkSecurityStatus call at a time is waiting for its     *)
(* detectors, while the breach handlers earlier calls started go on        *)
(* beside it.                                                              *)
(***************************************************************************)
EXTENDS Integers, Sequences, FiniteSets, TLC

\* ------------------------------------------------------------------ bounds
\* Number of ids generateUniqueId hands out (initialize calls started).
MaxSessions == 2
\* new Date() reads one of the times 1..MaxTime.
MaxTime == 1
\* Longest anomalies list the anomaly detector reports.
MaxAnomalies == 1
\* checkSecurityStatus calls (each with the breach handler it starts) that
\* are in progress at once.
MaxChecks == 1

\* --------------------------------------------------------------- constants
\* Object.values(this.modules) enumerates the modules in this order.
ModuleOrder ==
    <<"vpnDetection", "networkAnalysis", "anomalyDetection", "contentFingerprinting">>

Modules == {ModuleOrder[i] : i \in 1..Len(ModuleOrder)}

\* An id no initialize ever returned, and the ids a caller may pass.
UnknownId == 0
CallerIds == 0..MaxSessions

Times == 1..MaxTime
\* A timestamp field that has not been assigned.
Unset == 0

BreachReason == "Security violation detected"
Reasons == {BreachReason, "Manual termination"}

\* config.blockingStrategy: the three named strategies and a value that is
\* none of them.
Strategies == {"immediate", "degraded", "warning", "unrecognized"}
\* config.loggingLevel: the three named levels and a value that is none of
\* them.
LoggingLevels == {"debug", "info", "warning", "silent"}

\* Which detector modules provide a cleanup method (the modules decide).
CleanupSupport == {{}, {"vpnDetection", "anomalyDetection"}, Modules}

\* The engines explored, each a configuration and the modules that provide
\* cleanup: every blocking strategy with and without a notification endpoint,
\* every logging level, every CleanupSupport.
Setups ==
    {[config |-> [blockingStrategy |-> s, notificationEndpoint |-> n, loggingLevel |-> "info"],
      withCleanup |-> {"vpnDetection", "anomalyDetection"}] :
        s \in Strategies, n \in BOOLEAN}
    \cup
    {[config |-> [blockingStrategy |-> "immediate", notificationEndpoint |-> TRUE,
                  loggingLevel |-> l],
      withCleanup |-> {"vpnDetection", "anomalyDetection"}] : l \in LoggingLevels}
    \cup
    {[config |-> [blockingStrategy |-> "immediate", notificationEndpoint |-> FALSE,
                  loggingLevel |-> "info"],
      withCleanup |-> w] : w \in CleanupSupport}

VARIABLES
    config,         \* this.config
    withCleanup,    \* the modules m with typeof m.cleanup === 'function'
    sessions,       \* this.sessions: a Map from session id to session record
    isInitialized,  \* this.isInitialized
    nextId,         \* the number of generateUniqueId calls made, plus one
    init,           \* the initialize call in progress
    check,          \* the checkSecurityStatus calls in progress
    out,            \* what the step just taken handed back to the caller of
                    \* an engine method, if it ended a call
    http            \* the HTTP request handler (api/index.js): the request it
                    \* handles and the response it sent

vars == <<config, withCleanup, sessions, isInitialized, nextId, init, check, out, http>>

\* ------------------------------------------------------- detector results
RECURSIVE AnomalyList(_)
AnomalyList(n) == IF n = 0 THEN <<>> ELSE Append(AnomalyList(n - 1), "anomaly")

\* The DetectorResult values a module's checkStatus may resolve to.
Results(m) ==
    CASE m = "vpnDetection"          -> {[detected |-> b] : b \in BOOLEAN}
      [] m = "networkAnalysis"       -> {[suspicious |-> b] : b \in BOOLEAN}
      [] m = "anomalyDetection"      -> {[anomalies |-> AnomalyList(n)] : n \in 0..MaxAnomalies}
      [] m = "contentFingerprinting" -> {[valid |-> b] : b \in BOOLEAN}

\* One result of each module: what Promise.all resolves to at line 73.
ResultVectors == {v \in [Modules -> UNION {Results(m) : m \in Modules}] :
                    \A m \in Modules : v[m] \in Results(m)}

\* The four promises handed to Promise.all, each "pending" or "fulfilled"
\* while the call waits (a rejection ends the wait); "idle" before the modules
\* are called and after the call ended.
AllPending == [m \in Modules |-> "pending"]
NotIssued == [m \in Modules |-> "idle"]

\* Promise.all fulfils when every promise has fulfilled.
AllFulfilled(det) == \A m \in Modules : det[m] = "fulfilled"

\* ---------------------------------------------------------- the records
\* The session record initialize stores (lines 46-50); terminatedReason,
\* terminatedAt and closedAt are not assigned yet.
NewSession(info, t) ==
    [info |-> info, startTime |-> t, status |-> "active",
     terminatedReason |-> "undefined", terminatedAt |-> Unset, closedAt |-> Unset]

SessionInfos == {"{}"}

\* The session as terminateStream leaves it (lines 131-134).
TerminatedSession(session, reason, t) ==
    [session EXCEPT !.status = "terminated", !.terminatedReason = reason, !.terminatedAt = t]

\* The session as cleanup leaves it (lines 172-174).
ClosedSession(session, t) ==
    [session EXCEPT !.status = "closed", !.closedAt = t]

\* this.sessions.has(id)
Has(store, id) == id \in DOMAIN store

\* this.sessions.set(id, record)
MapSet(store, id, record) == (id :> record) @@ store

\* The store after terminateStream(id, reason): unchanged for an unknown id.
MutTerminateCreatesRecord(store, id, reason, t) ==
    MapSet(store, id,
           TerminatedSession(IF Has(store, id) THEN store[id] ELSE NewSession("{}", Unset),
                             reason, t))

StoreAfterTerminate(store, id, reason, t) ==
    IF Has(store, id)
    THEN MapSet(store, id, TerminatedSession(store[id], reason, t))
    ELSE store

\* The store after cleanup(id) on a known id.
StoreAfterCleanup(store, id, t) == MapSet(store, id, ClosedSession(store[id], t))

\* terminateStream's return value (lines 139-144).
TerminationResult(id, reason, t) ==
    [action |-> "terminate", reason |-> reason, sessionId |-> id, timestamp |-> t]

\* The modules cleanup calls module.cleanup on, in order (lines 178-182).
MutCleanupEveryModule(support) == ModuleOrder

CleanupCalls(support) == SelectSeq(ModuleOrder, LAMBDA m : m \in support)

\* -------------------------------------------------- checkSecurityStatus
\* The result for an id that is not in the store (lines 63-67).
MutInvalidSessionSecure(t) == [error |-> "Invalid session", secure |-> TRUE, timestamp |-> t]

InvalidSession(t) == [error |-> "Invalid session", secure |-> FALSE, timestamp |-> t]

NoReturn == [pending |-> TRUE]

\* Lines 70 and 81-84: the threats collected from the four results.
MutThreatsValidFingerprint(vpnStatus, networkStatus, anomalyStatus, fingerprintStatus) ==
    LET t1 == IF vpnStatus.detected
              THEN <<[type |-> "vpn", details |-> vpnStatus]>> ELSE <<>>
        t2 == IF networkStatus.suspicious
              THEN Append(t1, [type |-> "network", details |-> networkStatus]) ELSE t1
        t3 == IF Len(anomalyStatus.anomalies) > 0
              THEN Append(t2, [type |-> "anomaly", details |-> anomalyStatus]) ELSE t2
        t4 == IF fingerprintStatus.valid
              THEN Append(t3, [type |-> "fingerprint", details |-> fingerprintStatus])
              ELSE t3
    IN  t4

Threats(vpnStatus, networkStatus, anomalyStatus, fingerprintStatus) ==
    LET t1 == IF vpnStatus.detected
              THEN <<[type |-> "vpn", details |-> vpnStatus]>> ELSE <<>>
        t2 == IF networkStatus.suspicious
              THEN Append(t1, [type |-> "network", details |-> networkStatus]) ELSE t1
        t3 == IF Len(anomalyStatus.anomalies) > 0
              THEN Append(t2, [type |-> "anomaly", details |-> anomalyStatus]) ELSE t2
        t4 == IF ~fingerprintStatus.valid
              THEN Append(t3, [type |-> "fingerprint", details |-> fingerprintStatus])
              ELSE t3
    IN  t4

\* Line 87: secure: threats.length === 0
MutSecureAtMostOne(threats) == Len(threats) <= 1

Secure(threats) == Len(threats) = 0

\* Lines 86-91.
MutStatusOfInactiveSession(id, threats, t) ==
    [secure |-> Secure(threats) /\ sessions[id].status = "active", timestamp |-> t,
     sessionId |-> id, threats |-> threats]

SecurityStatus(id, threats, t) ==
    [secure |-> Secure(threats), timestamp |-> t, sessionId |-> id, threats |-> threats]

\* Line 94: if (!securityStatus.secure)
MutBreachAlways(status) == TRUE

BreachTriggered(status) == ~status.secure

\* The event types logSecurityEvent is called with: handleSecurityBreach
\* passes "breach", other callers of the method pass what they like.
EventTypes == {"breach", "routine", "access"}

\* The session ids other callers pass: the method does not look the id up, so
\* one id that is never in the store and one that may be.
LogIds == {UnknownId, 1}

\* Lines 188-193: the record logSecurityEvent builds and returns.
LogData(id, eventType, data, t) ==
    [timestamp |-> t, sessionId |-> id, eventType |-> eventType, data |-> data]

\* Lines 196-198: whether logSecurityEvent writes the record.
MutEmitsRoutineAtInfo(level, eventType) ==
    \/ level = "debug"
    \/ level = "info"
    \/ (level = "warning" /\ eventType = "breach")

Emits(level, eventType) ==
    \/ level = "debug"
    \/ (level = "info" /\ eventType # "routine")
    \/ (level = "warning" /\ eventType = "breach")

\* Lines 196-200: what logSecurityEvent hands to console.log.
ConsoleAfterLog(level, record) ==
    IF Emits(level, record.eventType) THEN <<record>> ELSE << >>

\* Lines 116-125: the action the switch on blockingStrategy takes.
MutStrategyNoDegradedCase(strategy) ==
    CASE strategy = "immediate" -> "terminate"
      [] strategy = "warning"   -> "warning"
      [] OTHER                  -> "terminate"

StrategyAction(strategy) ==
    CASE strategy = "immediate" -> "terminate"
      [] strategy = "degraded"  -> "degrade"
      [] strategy = "warning"   -> "warning"
      [] OTHER                  -> "terminate"

\* The store after the switch: only terminateStream writes to it.
StoreAfterStrategy(store, id, strategy, t) ==
    IF StrategyAction(strategy) = "terminate"
    THEN StoreAfterTerminate(store, id, BreachReason, t)
    ELSE store

\* Lines 107-112: the payload handed to notifySecurityEvent; its timestamp and
\* threats are left out.
NoPayload == [sessionId |-> UnknownId, action |-> "none"]

NotificationPayload(id) == [sessionId |-> id, action |-> config.blockingStrategy]

\* The breach handler a check starts: where it stands, whether its breach log
\* record was written, how the notification went, which action it took, the
\* payload it sent and the steps it has taken so far, in the order it took
\* them ("log", "notify", then the name of the action).
NoBreach == [pc |-> "none", log |-> "none", notify |-> "none", action |-> "none",
             payload |-> NoPayload, trace |-> << >>]

IdleCheck == [pc |-> "idle", sid |-> UnknownId, det |-> NotIssued, breach |-> NoBreach]

IdleInit == [pc |-> "idle", sid |-> UnknownId, info |-> "{}", det |-> NotIssued]

\* What a call hands back to its caller: the value it returns (or resolves
\* to), or that it threw (or rejected); for cleanup also the module.cleanup
\* calls it made, in order.
\* For checkSecurityStatus, awaited holds the results its await resolved to
\* and slot the slot of the call (NoSlot when it never awaited); console holds
\* the records the step wrote with console.log.
NoSlot == 0

NoResults == [m \in Modules |-> [none |-> TRUE]]

Returned(op, id, value) ==
    [op |-> op, sid |-> id, threw |-> FALSE, ret |-> value, moduleCalls |-> <<>>,
     awaited |-> NoResults, slot |-> NoSlot, console |-> << >>]

Threw(op, id) ==
    [op |-> op, sid |-> id, threw |-> TRUE, ret |-> NoReturn, moduleCalls |-> <<>>,
     awaited |-> NoResults, slot |-> NoSlot, console |-> << >>]

NoOutput == [op |-> "none", sid |-> UnknownId, threw |-> FALSE, ret |-> NoReturn,
             moduleCalls |-> <<>>, awaited |-> NoResults, slot |-> NoSlot,
             console |-> << >>]

\* ------------------------------------------------- the HTTP request handler
\* A session id a request does not carry (undefined).
Absent == -1

\* The ids requests carry: any id an initialize can have returned.
RequestIds == 1..MaxSessions

Methods == {"GET", "POST", "OPTIONS"}

\* req.headers.authorization as its parts between spaces: << >> for a request
\* without the header, then "Bearer" and "Bearer k".
AuthHeaders == {<< >>, <<"Bearer">>, <<"Bearer", "k">>}

\* req.query.endpoint; "" for a request without it.
Endpoints == {"", "initialize", "check", "terminate", "cleanup", "status"}

\* req.body: undefined for a request without a body, otherwise an object with
\* the fields the handler reads; blockingStrategy "" when the field is missing.
\* serviceName, sensitivityLevel, notificationEndpoint, loggingLevel, reason
\* and sessionInfo are missing from the bodies explored.
UndefinedBody == [defined |-> FALSE, sessionId |-> Absent, blockingStrategy |-> ""]

Bodies ==
    {UndefinedBody} \cup
    {[defined |-> TRUE, sessionId |-> i, blockingStrategy |-> b] :
        i \in {Absent} \cup RequestIds, b \in {"", "warning"}}

Requests ==
    [method : Methods, authorization : AuthHeaders, endpoint : Endpoints,
     querySessionId : {Absent, 1}, body : Bodies]

NoRequest ==
    [method |-> "none", authorization |-> << >>, endpoint |-> "",
     querySessionId |-> Absent, body |-> UndefinedBody]

\* res.status(code).json(body) or res.status(code).end()
Respond(code, body) == [status |-> code, body |-> body]

\* No response was sent.
NoResponse == [status |-> 0, body |-> [none |-> TRUE]]

\* The handler between requests, before the first one.  issued holds the
\* session ids the handler has handed out in responses so far; error says
\* whether an error was raised while the request was handled: "none",
\* "caught" by the catch block of line 92, or "uncaught" (the handler's
\* promise rejected).
IdleHandler ==
    [pc |-> "idle", req |-> NoRequest, res |-> NoResponse, error |-> "none",
     issued |-> {}]

\* ------------------------------------------------------------------ Init
\* The state after new ContentProtectionAPI(config) (lines 13-32).
Init ==
    /\ \E e \in Setups : config = e.config /\ withCleanup = e.withCleanup
    /\ sessions = << >>
    /\ isInitialized = FALSE
    /\ nextId = 1
    /\ init = IdleInit
    /\ check = [c \in 1..MaxChecks |-> IdleCheck]
    /\ out = NoOutput
    /\ http = IdleHandler

\* ------------------------------------------------------------ initialize
\* generateUniqueId (utils/helpers): the n-th call returns an id no earlier
\* call returned.
GenerateUniqueId(n) == n

\* Lines 35-43: the call that has generated its id, started the four module
\* initializations and waits for Promise.all.
InitializeCall(n, info) ==
    [pc |-> "await", sid |-> GenerateUniqueId(n), info |-> info, det |-> AllPending]

\* Lines 35-43: generate the id, start the four module initializations and
\* wait for Promise.all.
InitializeStart(info) ==
    /\ init.pc = "idle"
    /\ \A c \in 1..MaxChecks : check[c].pc # "await"   \* one waiting call at a time
    /\ nextId <= MaxSessions
    /\ init' = InitializeCall(nextId, info)
    /\ nextId' = nextId + 1
    /\ out' = NoOutput
    /\ UNCHANGED <<http, config, withCleanup, sessions, isInitialized, check>>

\* A module's initialize promise fulfils.
ModuleInitialized(m) ==
    /\ init.pc = "await"
    /\ init.det[m] = "pending"
    /\ init' = [init EXCEPT !.det[m] = "fulfilled"]
    /\ out' = NoOutput
    /\ UNCHANGED <<http, config, withCleanup, sessions, isInitialized, nextId, check>>

\* The store after a module's initialize promise rejected: line 46 is never
\* reached.
MutStoreSessionAnyway(store, id, info, t) ==
    (id :> [info |-> info, startTime |-> t, status |-> "active",
            terminatedReason |-> "undefined", terminatedAt |-> 0, closedAt |-> 0]) @@ store

StoreAfterFailedInitialize(store, id, info, t) == store

\* A module's initialize promise rejects: Promise.all rejects with it, whatever
\* the other three promises do, the await of line 38 throws and initialize
\* rejects.
ModuleInitializeFails(m, t) ==
    /\ init.pc = "await"
    /\ init.det[m] = "pending"
    /\ init' = [init EXCEPT !.pc = "idle", !.det = NotIssued]
    /\ sessions' = StoreAfterFailedInitialize(sessions, init.sid, init.info, t)
    /\ out' = Threw("initialize", init.sid)
    /\ UNCHANGED <<http, config, withCleanup, isInitialized, nextId, check>>

\* Lines 46-50: the store after this.sessions.set(sessionId, {...}).
MutStoreKeyedByInfo(store, id, info, t) == MapSet(store, 1, NewSession(info, t))

StoreAfterInitialize(store, id, info, t) == MapSet(store, id, NewSession(info, t))

\* Lines 45-58: store the session and return.  securityToken and
\* fingerprintData come from generateSecurityToken and the fingerprinting
\* module and are left out of the returned record.
InitializeCommit(t) ==
    /\ init.pc = "await"
    /\ AllFulfilled(init.det)
    /\ sessions' = StoreAfterInitialize(sessions, init.sid, init.info, t)
    /\ isInitialized' = TRUE
    /\ init' = [init EXCEPT !.pc = "idle", !.det = NotIssued]
    /\ out' = Returned("initialize", init.sid, [sessionId |-> init.sid])
    /\ UNCHANGED <<http, config, withCleanup, nextId, check>>

\* ------------------------------------------------- checkSecurityStatus
\* A slot can take a new call once its call has ended and the breach handler
\* that call started has settled.
SlotFree(c) ==
    /\ check[c].pc = "idle"
    /\ check[c].breach.pc # "notifying"

\* Lines 62-78: an unknown id returns at once; otherwise the four checkStatus
\* calls are started and the call waits for Promise.all.
CheckStart(c, id, t) ==
    IF ~Has(sessions, id)
    THEN /\ out' = Returned("checkSecurityStatus", id, InvalidSession(t))
         /\ UNCHANGED <<http, config, withCleanup, sessions, isInitialized, nextId, init, check>>
    ELSE /\ SlotFree(c)
         /\ init.pc # "await"                         \* one waiting call at a time
         /\ check' = [check EXCEPT ![c] =
                [pc |-> "await", sid |-> id, det |-> AllPending, breach |-> NoBreach]]
         /\ out' = NoOutput
         /\ UNCHANGED <<http, config, withCleanup, sessions, isInitialized, nextId, init>>

\* A module's checkStatus promise fulfils.  Nothing reads the value it holds
\* before line 73 does, so the value is drawn there, in CheckResume.
StatusChecked(c, m) ==
    /\ check[c].pc = "await"
    /\ check[c].det[m] = "pending"
    /\ check' = [check EXCEPT ![c].det[m] = "fulfilled"]
    /\ out' = NoOutput
    /\ UNCHANGED <<http, config, withCleanup, sessions, isInitialized, nextId, init>>

\* The call after module m's checkStatus promise rejected: Promise.all
\* rejects with it, whatever the other three promises do, the await of
\* line 73 throws and checkSecurityStatus rejects.
MutRejectionSwallowed(call, m) == [call EXCEPT !.det[m] = "fulfilled"]

AfterRejection(call, m) == [call EXCEPT !.pc = "idle", !.det = NotIssued]

\* A module's checkStatus promise rejects.
StatusCheckFails(c, m) ==
    /\ check[c].pc = "await"
    /\ check[c].det[m] = "pending"
    /\ check' = [check EXCEPT ![c] = AfterRejection(check[c], m)]
    /\ out' = IF check'[c].pc = "idle"
              THEN [Threw("checkSecurityStatus", check[c].sid) EXCEPT !.slot = c]
              ELSE NoOutput
    /\ UNCHANGED <<http, config, withCleanup, sessions, isInitialized, nextId, init>>

\* handleSecurityBreach up to its first await or its return (lines 102-125):
\* the breach handler's state and the store it leaves.
MutBreachStartNotifyNotAwaited(id, t) ==
    LET log == IF Emits(config.loggingLevel, "breach") THEN "emitted" ELSE "dropped"
        action == StrategyAction(config.blockingStrategy)
    IN  IF config.notificationEndpoint
        THEN [breach |-> [pc |-> "notifying", log |-> log, notify |-> "pending",
                          action |-> action, payload |-> NotificationPayload(id),
                          trace |-> <<"log", "notify", action>>],
              store |-> StoreAfterStrategy(sessions, id, config.blockingStrategy, t)]
        ELSE [breach |-> [pc |-> "done", log |-> log, notify |-> "none",
                          action |-> action, payload |-> NoPayload,
                          trace |-> <<"log", action>>],
              store |-> StoreAfterStrategy(sessions, id, config.blockingStrategy, t)]

BreachStart(id, t) ==
    LET log == IF Emits(config.loggingLevel, "breach") THEN "emitted" ELSE "dropped"
        action == StrategyAction(config.blockingStrategy)
    IN  IF config.notificationEndpoint
        THEN [breach |-> [pc |-> "notifying", log |-> log, notify |-> "pending",
                          action |-> "none", payload |-> NotificationPayload(id),
                          trace |-> <<"log", "notify">>],
              store |-> sessions]
        ELSE [breach |-> [pc |-> "done", log |-> log, notify |-> "none",
                          action |-> action, payload |-> NoPayload,
                          trace |-> <<"log", action>>],
              store |-> StoreAfterStrategy(sessions, id, config.blockingStrategy, t)]

\* Lines 73-98: Promise.all resolved to the results r; collect the threats,
\* build the status, start the breach handler without awaiting it, return the
\* status.
CheckResume(c, r, t) ==
    /\ check[c].pc = "await"
    /\ AllFulfilled(check[c].det)
    /\ LET id == check[c].sid
           threats == Threats(r["vpnDetection"], r["networkAnalysis"],
                              r["anomalyDetection"], r["contentFingerprinting"])
           status == SecurityStatus(id, threats, t)
           started == BreachStart(id, t)
       IN  /\ IF BreachTriggered(status)
              THEN /\ check' = [check EXCEPT ![c].pc = "idle", ![c].det = NotIssued,
                                             ![c].breach = started.breach]
                   /\ sessions' = started.store
              ELSE /\ check' = [check EXCEPT ![c].pc = "idle", ![c].det = NotIssued]
                   /\ UNCHANGED sessions
           /\ out' = [Returned("checkSecurityStatus", id, status) EXCEPT
                          !.awaited = r,
                          !.slot = c,
                          !.console = IF BreachTriggered(status)
                                      THEN ConsoleAfterLog(config.loggingLevel,
                                                           LogData(id, "breach", threats, t))
                                      ELSE << >>]
    /\ UNCHANGED <<http, config, withCleanup, isInitialized, nextId, init>>

\* ------------------------------------------------ handleSecurityBreach
\* notifySecurityEvent resolved: the handler goes on at line 116.
NotificationDelivered(c, t) ==
    /\ check[c].breach.pc = "notifying"
    /\ check' = [check EXCEPT ![c].breach.pc = "done", ![c].breach.notify = "delivered",
                              ![c].breach.action = StrategyAction(config.blockingStrategy),
                              ![c].breach.trace =
                                  Append(@, StrategyAction(config.blockingStrategy))]
    /\ sessions' = StoreAfterStrategy(sessions, check[c].sid, config.blockingStrategy, t)
    /\ out' = NoOutput
    /\ UNCHANGED <<http, config, withCleanup, isInitialized, nextId, init>>

\* notifySecurityEvent rejected: the await of line 107 throws and the handler
\* ends there.
NotificationFails(c) ==
    /\ check[c].breach.pc = "notifying"
    /\ check' = [check EXCEPT ![c].breach.pc = "rejected", ![c].breach.notify = "failed"]
    /\ out' = NoOutput
    /\ UNCHANGED <<http, config, withCleanup, sessions, isInitialized, nextId, init>>

\* --------------------------------------------- terminateStream, cleanup
\* Lines 128-145.
TerminateStream(id, reason, t) ==
    /\ sessions' = StoreAfterTerminate(sessions, id, reason, t)
    /\ out' = Returned("terminateStream", id, TerminationResult(id, reason, t))
    /\ UNCHANGED <<http, config, withCleanup, isInitialized, nextId, init, check>>

\* Lines 166-185.
Cleanup(id, t) ==
    /\ IF ~Has(sessions, id)
       THEN /\ out' = Returned("cleanup", id, FALSE)
            /\ UNCHANGED sessions
       ELSE /\ sessions' = StoreAfterCleanup(sessions, id, t)
            /\ out' = [Returned("cleanup", id, TRUE) EXCEPT
                            !.moduleCalls = CleanupCalls(withCleanup)]
    /\ UNCHANGED <<http, config, withCleanup, isInitialized, nextId, init, check>>

\* ------------------------------------------------------ logSecurityEvent
\* Lines 187-204, called from outside the engine.
LogSecurityEvent(id, eventType, data, t) ==
    /\ out' = [Returned("logSecurityEvent", id, LogData(id, eventType, data, t)) EXCEPT
                    !.console = ConsoleAfterLog(config.loggingLevel,
                                                LogData(id, eventType, data, t))]
    /\ UNCHANGED <<http, config, withCleanup, sessions, isInitialized, nextId, init, check>>

Next ==
    \/ \E info \in SessionInfos : InitializeStart(info)
    \/ \E m \in Modules : ModuleInitialized(m)
    \/ \E m \in Modules, t \in Times : ModuleInitializeFails(m, t)
    \/ \E t \in Times : InitializeCommit(t)
    \/ \E c \in 1..MaxChecks, id \in CallerIds, t \in Times : CheckStart(c, id, t)
    \/ \E c \in 1..MaxChecks, m \in Modules : StatusChecked(c, m)
    \/ \E c \in 1..MaxChecks, m \in Modules : StatusCheckFails(c, m)
    \/ \E c \in 1..MaxChecks, r \in ResultVectors, t \in Times : CheckResume(c, r, t)
    \/ \E c \in 1..MaxChecks, t \in Times : NotificationDelivered(c, t)
    \/ \E c \in 1..MaxChecks : NotificationFails(c)
    \/ \E id \in CallerIds, reason \in Reasons, t \in Times : TerminateStream(id, reason, t)
    \/ \E id \in CallerIds, t \in Times : Cleanup(id, t)
    \/ \E id \in LogIds, eventType \in EventTypes, t \in Times :
          LogSecurityEvent(id, eventType, "data", t)

Spec == Init /\ [][Next]_vars

\* ------------------------------------------------- the HTTP request handler
\* (src/unnamed/part_000, api/index.js).  The handler is explored one request
\* at a time: every request gets an engine of its own, held in the engine's
\* variables while the request is handled, and requests share nothing but
\* generateUniqueId.

\* Line 20: req.headers.authorization?.split(' ')[1]; "" when it is undefined.
ApiKey(header) == IF Len(header) >= 2 THEN header[2] ELSE ""

\* a || b, on strings and on session ids.
OrString(a, b) == IF a # "" THEN a ELSE b

OrId(a, b) == IF a # Absent THEN a ELSE b

\* Lines 26-33 and the constructor: the configuration of the request's engine.
ConfigFrom(body) ==
    [blockingStrategy |-> OrString(body.blockingStrategy, "immediate"),
     notificationEndpoint |-> FALSE, loggingLevel |-> "info"]

\* Line 26 and the constructor (index.js:31): the session store of the engine
\* that handles a request, given the store of the engine before it.
MutEngineKeptAcrossRequests(previous) == previous

RequestStore(previous) == << >>

\* The bodies of the error responses.
Unauthorized == [error |-> "Unauthorized", message |-> "API key is required"]
MethodNotAllowed == [error |-> "Method not allowed"]
SessionIdRequired == [error |-> "Session ID is required"]
InternalServerError == [error |-> "Internal server error", message |-> "error.message"]

\* Lines 37-91, up to the first await that suspends or the response: the
\* handler's position, its response and what the engine calls it made left
\* of the engine (store the store of the request's new engine).
Route(req, store, t) ==
    LET endpoint == OrString(req.endpoint, "status")
        answered(res) == [pc |-> "idle", res |-> res, sessions |-> store,
                          init |-> IdleInit, check |-> [c \in 1..MaxChecks |-> IdleCheck],
                          nextId |-> nextId]
    IN  CASE endpoint = "initialize" ->
                IF req.method # "POST"
                THEN answered(Respond(405, MethodNotAllowed))
                ELSE [answered(NoResponse) EXCEPT
                          !.pc = "awaitInitialize",
                          !.init = InitializeCall(nextId, "{}"),
                          !.nextId = nextId + 1]
          [] endpoint = "check" ->
                LET sessionId == OrId(req.querySessionId, req.body.sessionId)
                IN  IF sessionId = Absent
                    THEN answered(Respond(400, SessionIdRequired))
                    ELSE IF ~Has(store, sessionId)
                    THEN answered(Respond(200, InvalidSession(t)))
                    ELSE [answered(NoResponse) EXCEPT
                              !.pc = "awaitCheck",
                              !.check[1] = [pc |-> "await", sid |-> sessionId,
                                            det |-> AllPending, breach |-> NoBreach]]
          [] endpoint = "terminate" ->
                LET terminateSessionId == req.body.sessionId
                    reason == "Manual termination"
                IN  IF req.method # "POST"
                    THEN answered(Respond(405, MethodNotAllowed))
                    ELSE IF terminateSessionId = Absent
                    THEN answered(Respond(400, SessionIdRequired))
                    ELSE [answered(Respond(200, TerminationResult(terminateSessionId, reason, t)))
                            EXCEPT !.sessions =
                                StoreAfterTerminate(store, terminateSessionId, reason, t)]
          [] endpoint = "cleanup" ->
                LET cleanupSessionId == req.body.sessionId
                IN  IF req.method # "POST"
                    THEN answered(Respond(405, MethodNotAllowed))
                    ELSE IF cleanupSessionId = Absent
                    THEN answered(Respond(400, SessionIdRequired))
                    ELSE [answered(Respond(200, [status |-> "success",
                                                 message |-> "Session cleaned up"]))
                            EXCEPT !.sessions =
                                IF Has(store, cleanupSessionId)
                                THEN StoreAfterCleanup(store, cleanupSessionId, t)
                                ELSE store]
          [] OTHER ->
                answered(Respond(200, [status |-> "running", version |-> "1.0.0",
                                       timestamp |-> t]))

\* The request is one that reaches the initialize call of line 45.
CallsInitialize(req) ==
    /\ req.method \notin {"OPTIONS"}
    /\ ApiKey(req.authorization) # ""
    /\ req.body.defined
    /\ req.endpoint = "initialize" /\ req.method = "POST"

\* Lines 4-91: a request arrives and is handled up to its response, to the
\* error that ends the handler, or to the await that suspends it.
HandlerReceive(req, t) ==
    /\ http.pc = "idle"
    /\ CallsInitialize(req) => nextId <= MaxSessions
    /\ out' = NoOutput
    /\ UNCHANGED withCleanup
    /\ IF req.method = "OPTIONS"
       THEN \* lines 15-17
            /\ http' = [http EXCEPT !.req = req, !.res = Respond(200, [ended |-> TRUE]),
                                    !.error = "none"]
            /\ UNCHANGED <<config, sessions, isInitialized, nextId, init, check>>
       ELSE IF ApiKey(req.authorization) = ""
       THEN \* lines 20-23
            /\ http' = [http EXCEPT !.req = req, !.res = Respond(401, Unauthorized),
                                    !.error = "none"]
            /\ UNCHANGED <<config, sessions, isInitialized, nextId, init, check>>
       ELSE IF ~req.body.defined
       THEN \* line 28 reads a property of undefined: a TypeError outside the try
            \* block of line 35, so the handler rejects and sends nothing
            /\ http' = [http EXCEPT !.req = req, !.res = NoResponse, !.error = "uncaught"]
            /\ UNCHANGED <<config, sessions, isInitialized, nextId, init, check>>
       ELSE \* lines 26-91
            LET routed == Route(req, RequestStore(sessions), t)
            IN  /\ config' = ConfigFrom(req.body)
                /\ isInitialized' = FALSE
                /\ sessions' = routed.sessions
                /\ init' = routed.init
                /\ check' = routed.check
                /\ nextId' = routed.nextId
                /\ http' = [http EXCEPT !.pc = routed.pc, !.req = req, !.res = routed.res,
                                        !.error = "none"]

\* Lines 45-46, 54-55 and 92-97: the engine call the handler awaits has
\* ended; the handler answers 200 with its value, or 500 if it threw.
HandlerResume ==
    /\ \/ http.pc = "awaitInitialize" /\ out.op = "initialize"
       \/ http.pc = "awaitCheck" /\ out.op = "checkSecurityStatus"
    /\ http' = [http EXCEPT
                   !.pc = "idle",
                   !.res = IF out.threw
                           THEN Respond(500, InternalServerError)
                           ELSE Respond(200, out.ret),
                   !.error = IF out.threw THEN "caught" ELSE "none",
                   !.issued = IF out.op = "initialize" /\ ~out.threw
                              THEN @ \cup {out.ret.sessionId} ELSE @]
    /\ out' = NoOutput
    /\ UNCHANGED <<config, withCleanup, sessions, isInitialized, nextId, init, check>>

\* Before the first request: no engine yet, described as an empty one.
HandlerInit ==
    /\ config = ConfigFrom(UndefinedBody)
    /\ withCleanup = {"vpnDetection", "anomalyDetection"}
    /\ sessions = << >>
    /\ isInitialized = FALSE
    /\ nextId = 1
    /\ init = IdleInit
    /\ check = [c \in 1..MaxChecks |-> IdleCheck]
    /\ out = NoOutput
    /\ http = IdleHandler

HandlerNext ==
    \/ \E req \in Requests, t \in Times : HandlerReceive(req, t)
    \/ \E m \in Modules : ModuleInitialized(m)
    \/ \E m \in Modules, t \in Times : ModuleInitializeFails(m, t)
    \/ \E t \in Times : InitializeCommit(t)
    \/ HandlerResume

HandlerSpec == HandlerInit /\ [][HandlerNext]_vars

\* ------------------------------------------------------------- properties
Terminal == {"terminated", "closed"}

\* The step just taken was a checkSecurityStatus call returning a value ...
CheckReturned == out.op = "checkSecurityStatus" /\ ~out.threw

\* ... the Invalid-session shape ...
InvalidReturned == CheckReturned /\ "error" \in DOMAIN out.ret

\* ... or a SecurityStatus.
StatusReturned == CheckReturned /\ "error" \notin DOMAIN out.ret

\* The call that just returned started a breach handler.
BreachHandlerStarted ==
    /\ out.slot \in 1..MaxChecks
    /\ check[out.slot].breach.pc # "none"

\* C1 (as claimed): once a stored session's status is terminated or closed, no
\* step changes it to a different value.
C1_TerminalStatusNeverChanges ==
    [][\A id \in DOMAIN sessions :
          sessions[id].status \in Terminal => sessions'[id].status = sessions[id].status]_vars

\* C2 (as claimed): when checkSecurityStatus returns an unsafe status, the
\* breach handler it started has completed, and with blockingStrategy
\* "immediate" the session is already terminated with the breach reason.
C2_BreachResponseDoneAtReturn ==
    (StatusReturned /\ ~out.ret.secure) =>
        /\ check[out.slot].breach.pc = "done"
        /\ config.blockingStrategy = "immediate" =>
              /\ sessions[out.sid].status = "terminated"
              /\ sessions[out.sid].terminatedReason = BreachReason

\* C3 (as claimed): under a blockingStrategy other than degraded and warning,
\* every breach handler that ends has set its session's status to terminated.
C3_EveryBreachTerminates ==
    [][\A c \in 1..MaxChecks :
          ( /\ config.blockingStrategy \notin {"degraded", "warning"}
            /\ check'[c].breach.pc # check[c].breach.pc
            /\ check'[c].breach.pc \in {"done", "rejected"} )
          => sessions'[check'[c].sid].status = "terminated"]_vars

\* C4: under blockingStrategy degraded or warning, no step of a
\* checkSecurityStatus call or of a breach handler changes the session store.
C4_DegradedWarningLeaveStore ==
    [][(config.blockingStrategy \in {"degraded", "warning"} /\ check' # check)
          => sessions' = sessions]_vars

C4_Witness ==
    \E c \in 1..MaxChecks :
        /\ check[c].breach.pc = "done"
        /\ check[c].breach.action = "warning"
        /\ check[c].breach.notify = "delivered"
        /\ sessions[check[c].sid].status = "active"

\* C5: checkSecurityStatus on an id that is not in the store returns
\* {error: "Invalid session", secure: false, timestamp}, changes neither the
\* store nor any call in progress (no checkStatus is started, no breach
\* handler), and a call that awaits detectors is always on a known id.
C5_UnknownIdIsInvalidSession ==
    [][ /\ \A id \in CallerIds :
              (out'.op = "checkSecurityStatus" /\ out'.sid = id /\ ~Has(sessions, id))
              => /\ ~out'.threw
                 /\ DOMAIN out'.ret = {"error", "secure", "timestamp"}
                 /\ out'.ret.error = "Invalid session"
                 /\ out'.ret.secure = FALSE
                 /\ out'.ret.timestamp \in Times
                 /\ out'.slot = NoSlot
                 /\ UNCHANGED <<sessions, check>>
        /\ \A c \in 1..MaxChecks :
              check'[c].pc = "await" => Has(sessions', check'[c].sid) ]_vars

C5_Witness == InvalidReturned /\ out.sid = MaxSessions /\ Has(sessions, 1)

\* C6 (as claimed): a checkSecurityStatus call starts a breach handler if and
\* only if the result it returns has secure = false.
C6_BreachIffNotSecure ==
    CheckReturned => (BreachHandlerStarted <=> ~out.ret.secure)

\* C6 (amended): a checkSecurityStatus call starts a breach handler if and
\* only if it returns a SecurityStatus with secure = false; the
\* Invalid-session result has secure = false and starts none.
C6_BreachIffUnsafeStatus ==
    CheckReturned => (BreachHandlerStarted <=> (StatusReturned /\ ~out.ret.secure))

C6_Witness == StatusReturned /\ ~out.ret.secure /\ BreachHandlerStarted

C8_InitializeAllOrNothing ==
    [][ /\ (init.pc = "await" /\ init'.pc = "idle") =>
              IF AllFulfilled(init.det)
              THEN /\ out' = Returned("initialize", init.sid, [sessionId |-> init.sid])
                   /\ ~Has(sessions, init.sid)
                   /\ DOMAIN sessions' = DOMAIN sessions \cup {init.sid}
                   /\ sessions'[init.sid].status = "active"
                   /\ \A id \in DOMAIN sessions : sessions'[id] = sessions[id]
              ELSE /\ out' = Threw("initialize", init.sid)
                   /\ sessions' = sessions
                   /\ ~Has(sessions', init.sid)
        /\ DOMAIN sessions' # DOMAIN sessions =>
              (init.pc = "await" /\ init'.pc = "idle" /\ AllFulfilled(init.det)) ]_vars

C8_Witness ==
    /\ out = Threw("initialize", MaxSessions)
    /\ DOMAIN sessions = {1}

\* C9: a step in which a module's checkStatus rejects ends the call: it
\* throws, returns no status, starts no breach handler and leaves the store
\* unchanged; and a call never ends by returning while a module's promise is
\* not fulfilled.
C9_DetectorFailureAbortsCheck ==
    [][\A c \in 1..MaxChecks :
          /\ \A m \in Modules :
                StatusCheckFails(c, m) =>
                    /\ out'.op = "checkSecurityStatus" /\ out'.threw
                    /\ out'.sid = check[c].sid
                    /\ out'.ret = NoReturn
                    /\ check'[c].pc = "idle"
                    /\ check'[c].breach = NoBreach
                    /\ sessions' = sessions
          /\ (check[c].pc = "await" /\ check'[c].pc = "idle" /\ ~AllFulfilled(check[c].det))
                => (out'.threw /\ sessions' = sessions /\ check'[c].breach = NoBreach) ]_vars

C9_Witness ==
    /\ out.op = "checkSecurityStatus" /\ out.threw
    /\ sessions[out.sid].status = "active"
    /\ config.blockingStrategy = "immediate"

\* How often module m occurs in the sequence calls.
Count(m, calls) == Cardinality({i \in 1..Len(calls) : calls[i] = m})

\* C10: cleanup on an unknown id returns false, changes no session and calls
\* no module; on a known id it returns true, leaves that session closed with
\* closedAt stamped and every other session as it was, and calls cleanup once
\* on each module that has one and on no other.
C10_Cleanup ==
    [][\A id \in CallerIds :
          (out'.op = "cleanup" /\ out'.sid = id) =>
              /\ ~out'.threw
              /\ UNCHANGED check
              /\ IF ~Has(sessions, id)
                 THEN /\ out'.ret = FALSE
                      /\ out'.moduleCalls = << >>
                      /\ sessions' = sessions
                 ELSE /\ out'.ret = TRUE
                      /\ DOMAIN sessions' = DOMAIN sessions
                      /\ sessions'[id].status = "closed"
                      /\ sessions'[id].closedAt \in Times
                      /\ \A other \in DOMAIN sessions \ {id} :
                            sessions'[other] = sessions[other]
                      /\ \A m \in Modules :
                            Count(m, out'.moduleCalls) = IF m \in withCleanup THEN 1 ELSE 0 ]_vars

C10_Witness ==
    /\ out.op = "cleanup"
    /\ out.ret = TRUE
    /\ out.moduleCalls = <<"vpnDetection", "anomalyDetection">>
    /\ sessions[out.sid].status = "closed"

\* C11 (as claimed): a breach handler whose notification delivery failed has
\* still taken the action its blockingStrategy selects (terminate, degrade or
\* warning).
C11_ActionAppliedAfterFailedDelivery ==
    \A c \in 1..MaxChecks :
        check[c].breach.notify = "failed"
        => check[c].breach.action = StrategyAction(config.blockingStrategy)

\* The promises of a Promise.all that have not settled.
Pending(det) == {m \in Modules : det[m] = "pending"}

\* C12 (as claimed): a step that starts the wait of initialize or of
\* checkSecurityStatus has issued all four module calls, and a step that ends
\* the call, by returning or by failing, finds no module call in flight other
\* than the one that settles in that step.
C12_CompletesOnlyWhenAllSettled ==
    [][ /\ (init.pc = "idle" /\ init'.pc = "await") => Pending(init'.det) = Modules
        /\ (init.pc = "await" /\ init'.pc = "idle") => Cardinality(Pending(init.det)) <= 1
        /\ \A c \in 1..MaxChecks :
              /\ (check[c].pc = "idle" /\ check'[c].pc = "await")
                    => Pending(check'[c].det) = Modules
              /\ (check[c].pc = "await" /\ check'[c].pc = "idle")
                    => Cardinality(Pending(check[c].det)) <= 1 ]_vars

ThreatOrder == <<"vpn", "network", "anomaly", "fingerprint">>

DetectorOf(type) ==
    CASE type = "vpn"         -> "vpnDetection"
      [] type = "network"     -> "networkAnalysis"
      [] type = "anomaly"     -> "anomalyDetection"
      [] type = "fingerprint" -> "contentFingerprinting"

Fires(type, r) ==
    CASE type = "vpn"         -> r["vpnDetection"].detected = TRUE
      [] type = "network"     -> r["networkAnalysis"].suspicious = TRUE
      [] type = "anomaly"     -> r["anomalyDetection"].anomalies # << >>
      [] type = "fingerprint" -> r["contentFingerprinting"].valid = FALSE

\* C15: the threats of every SecurityStatus returned are, in the order vpn,
\* network, anomaly, fingerprint, exactly the types whose rule fires on the
\* results the call awaited, each with the result of its own detector as
\* details.
C15_ThreatsAreRuleSubsequence ==
    StatusReturned =>
        LET expected == SelectSeq(ThreatOrder, LAMBDA type : Fires(type, out.awaited))
        IN  /\ Len(out.ret.threats) = Len(expected)
            /\ \A i \in 1..Len(expected) :
                  /\ out.ret.threats[i].type = expected[i]
                  /\ out.ret.threats[i].details = out.awaited[DetectorOf(expected[i])]

C15_Witness ==
    /\ StatusReturned
    /\ Len(out.ret.threats) = 2
    /\ out.ret.threats[1].type = "network"
    /\ out.ret.threats[2].type = "fingerprint"

\* s is an initial part of the sequence full.
IsPrefix(s, full) == Len(s) <= Len(full) /\ s = SubSeq(full, 1, Len(s))

\* C16: every breach handler takes its steps in the order log, notification,
\* strategy action; it sends a notification if and only if notificationEndpoint
\* is configured, with the configured blockingStrategy as the payload's action
\* and the breached session as its sessionId; while the delivery is pending,
\* and after it failed, the handler has taken no strategy action.
C16_LogNotifyThenAct ==
    \A c \in 1..MaxChecks :
        LET b == check[c].breach
            action == StrategyAction(config.blockingStrategy)
            steps == IF config.notificationEndpoint
                     THEN <<"log", "notify", action>> ELSE <<"log", action>>
        IN  b.pc # "none" =>
              /\ b.log # "none"
              /\ b.trace # << >> /\ IsPrefix(b.trace, steps)
              /\ (b.notify # "none") <=> config.notificationEndpoint
              /\ b.notify # "none" =>
                    b.payload = [sessionId |-> check[c].sid,
                                 action |-> config.blockingStrategy]
              /\ b.notify \in {"pending", "failed"} => (b.action = "none" /\ b.trace # steps)
              /\ b.action # "none" =>
                    (b.action = action /\ b.trace = steps /\ b.notify \in {"none", "delivered"})

C16_Witness ==
    \E c \in 1..MaxChecks :
        /\ check[c].breach.trace = <<"log", "notify", "terminate">>
        /\ check[c].breach.payload.action = "unrecognized"
        /\ sessions[check[c].sid].status = "terminated"

\* The verdict as a function of the four detector results and of nothing
\* else: no configuration field, no session record, no notification outcome.
VerdictOf ==
    [r \in ResultVectors |->
        LET fired == SelectSeq(ThreatOrder, LAMBDA type : Fires(type, r))
        IN  [secure  |-> \A i \in 1..Len(ThreatOrder) : ~Fires(ThreatOrder[i], r),
             threats |-> [i \in 1..Len(fired) |->
                             [type |-> fired[i], details |-> r[DetectorOf(fired[i])]]]]]

\* C17: the secure flag and the threats of every SecurityStatus returned are
\* VerdictOf applied to the results the call awaited, under every
\* blockingStrategy, with and without a notificationEndpoint, whatever became
\* of earlier notifications and whatever the status of the session.
C17_VerdictFromResultsAlone ==
    StatusReturned =>
        [secure |-> out.ret.secure, threats |-> out.ret.threats] = VerdictOf[out.awaited]

C17_Witness ==
    /\ StatusReturned
    /\ ~out.ret.secure
    /\ sessions[out.sid].status = "closed"
    /\ config.blockingStrategy = "warning"
    /\ check[out.slot].breach.notify = "pending"

\* C18: no step removes an id from the session store; a step that adds one is
\* the return of a successful initialize and adds the id it returns and no
\* other; terminateStream, cleanup and checkSecurityStatus on an id that is
\* not in the store leave the store as it is.
C18_RecordsNeverRemoved ==
    [][ /\ DOMAIN sessions \subseteq DOMAIN sessions'
        /\ DOMAIN sessions' # DOMAIN sessions =>
              /\ out'.op = "initialize" /\ ~out'.threw
              /\ DOMAIN sessions' = DOMAIN sessions \cup {out'.ret.sessionId}
        /\ ( /\ out'.op \in {"terminateStream", "cleanup", "checkSecurityStatus"}
             /\ ~Has(sessions, out'.sid) )
           => sessions' = sessions ]_vars

C18_Witness ==
    /\ out.op = "terminateStream"
    /\ out.sid = MaxSessions
    /\ DOMAIN sessions = {1}
    /\ sessions[1].status = "closed"

\* The emission rule of the three logging levels.
ShouldEmit(level, eventType) ==
    CASE level = "debug"   -> TRUE
      [] level = "info"    -> eventType # "routine"
      [] level = "warning" -> eventType = "breach"
      [] OTHER             -> FALSE

\* C19: logSecurityEvent never throws, returns the record {timestamp,
\* sessionId, eventType, data} of its arguments, and writes exactly that
\* record if ShouldEmit holds of the loggingLevel and the event type and
\* nothing otherwise; a checkSecurityStatus call that starts a breach handler
\* writes the breach record of its session and threats under the levels debug,
\* info and warning and nothing under any other level, and a call that starts
\* none writes nothing.
C19_LogRecordAndEmission ==
    /\ out.op = "logSecurityEvent" =>
          /\ ~out.threw
          /\ DOMAIN out.ret = {"timestamp", "sessionId", "eventType", "data"}
          /\ out.ret.sessionId = out.sid
          /\ out.ret.eventType \in EventTypes
          /\ out.ret.timestamp \in Times
          /\ out.console = IF ShouldEmit(config.loggingLevel, out.ret.eventType)
                           THEN <<out.ret>> ELSE << >>
    /\ CheckReturned =>
          IF BreachHandlerStarted
          THEN /\ check[out.slot].breach.log =
                      IF config.loggingLevel \in {"debug", "info", "warning"}
                      THEN "emitted" ELSE "dropped"
               /\ out.console =
                      IF config.loggingLevel \in {"debug", "info", "warning"}
                      THEN <<[timestamp |-> out.ret.timestamp, sessionId |-> out.sid,
                              eventType |-> "breach", data |-> out.ret.threats]>>
                      ELSE << >>
          ELSE out.console = << >>

C19_Witness ==
    /\ out.op = "logSecurityEvent"
    /\ out.ret.eventType = "routine"
    /\ config.loggingLevel = "info"
    /\ out.console = << >>
    /\ \E id \in DOMAIN sessions : sessions[id].status = "terminated"

\* The handler has handled the request http.req to its end.
Handled == http.pc = "idle" /\ http.req # NoRequest

\* The conditions the response codes are specified for.
CredentialMissing(req) == ApiKey(req.authorization) = ""

WrongVerb(req) == req.endpoint \in {"initialize", "terminate", "cleanup"} /\ req.method # "POST"

LacksSessionId(req) ==
    \/ req.endpoint = "check" /\ req.querySessionId = Absent /\ req.body.sessionId = Absent
    \/ req.endpoint \in {"terminate", "cleanup"} /\ req.body.sessionId = Absent

\* C14 (as claimed): every request handled has been answered with one code:
\* 200 for OPTIONS; otherwise 401 if the credential is missing; otherwise 500
\* with {error, message} if an error was raised while it was handled;
\* otherwise 405 or 400 if the verb is wrong or the session id is missing,
\* 405 only for a wrong verb and 400 only for a missing id; otherwise 200.
C14_EveryRequestAnswered ==
    Handled =>
        LET req == http.req
            status == http.res.status
        IN  IF req.method = "OPTIONS" THEN status = 200
            ELSE IF CredentialMissing(req) THEN status = 401
            ELSE IF http.error # "none"
            THEN status = 500 /\ DOMAIN http.res.body = {"error", "message"}
            ELSE IF WrongVerb(req) \/ LacksSessionId(req)
            THEN /\ status \in {405, 400}
                 /\ status = 405 => WrongVerb(req)
                 /\ status = 400 => LacksSessionId(req)
            ELSE status = 200

\* The request is a check, terminate or cleanup request for session id.
Targets(req, id) ==
    \/ req.endpoint = "check" /\ OrId(req.querySessionId, req.body.sessionId) = id
    \/ req.endpoint \in {"terminate", "cleanup"} /\ req.body.sessionId = id

\* C20 (as claimed): every check request handled was answered 200 with the
\* Invalid-session shape, and every terminate or cleanup request handled was
\* answered 200.
C20_EveryRequestAnswers200 ==
    Handled =>
        /\ http.req.endpoint = "check" =>
              /\ http.res.status = 200
              /\ "error" \in DOMAIN http.res.body
        /\ http.req.endpoint \in {"terminate", "cleanup"} => http.res.status = 200

\* C20 (amended): a step that takes up a request leaves no checkSecurityStatus
\* call waiting for detectors and changes no session record, also when the
\* request names an id an earlier initialize request was answered with; a
\* check request other than a preflight (OPTIONS) that it answers 200 gets
\* the Invalid-session shape; a terminate or
\* cleanup request sent with POST, a credential and a session id in its body
\* is answered 200 in that step.
C20_FreshEnginePerRequest ==
    [][http.pc = "idle" =>
          LET req == http'.req
              res == http'.res
          IN  /\ \A c \in 1..MaxChecks : check'[c].pc = "idle"
              /\ \A id \in DOMAIN sessions' : Has(sessions, id) /\ sessions'[id] = sessions[id]
              /\ req.endpoint \in {"check", "terminate", "cleanup"} => http'.pc = "idle"
              /\ (req.endpoint = "check" /\ req.method # "OPTIONS" /\ res.status = 200) =>
                    /\ DOMAIN res.body = {"error", "secure", "timestamp"}
                    /\ res.body.error = "Invalid session"
                    /\ res.body.secure = FALSE
              /\ ( /\ req.endpoint \in {"terminate", "cleanup"}
                   /\ req.method = "POST"
                   /\ ~CredentialMissing(req)
                   /\ req.body.sessionId # Absent )
                 => res.status = 200 ]_vars

C20_Witness ==
    /\ Handled
    /\ http.req.endpoint = "check"
    /\ \E id \in http.issued : Targets(http.req, id)
    /\ http.res.status = 200
    /\ http.res.body.error = "Invalid session"

====
